---- MODULE Spec2Model ----
(***************************************************************************)
(* A model of the CS50AI exercises of this repository.                     *)
(*                                                                         *)
(* Part I: the crossword constraint-satisfaction solver                    *)
(* (src/Optimization/crossword/generate.py, class CrosswordCreator):       *)
(* node consistency, AC-3 and backtracking search over a Crossword.        *)
(*                                                                         *)
(* A Python str is a sequence of one-character strings; offsets are        *)
(* 0-based as in the code, so w[k] of the code is w[k + 1] here.           *)
(* An assigned value is [kind, chars]: kind "str" for a word, kind "list"  *)
(* for the list of characters that line 330 of generate.py stores.         *)
(* Python iterates its sets in an order the program does not control       *)
(* (Variable hashes its direction string, whose hash is salted per run):   *)
(* every iteration over a set is a choice of one of its permutations.      *)
(***************************************************************************)
EXTENDS Integers, Sequences, FiniteSets, TLC

VARIABLES
    crossword,      \* self.crossword: [structure, variables, words]
    domains,        \* self.domains: variable -> set of words
    pc,             \* position of the caller in solve() / ac3() / backtrack()
    queue,          \* ac3's local worklist of arcs <<x, y>>
    ac3_result,     \* what the last ac3() call returned: "none", "True", "False"
    ac3_runs,       \* number of ac3() calls started
    domains_before, \* self.domains when the current ac3() call started
    assignment,     \* the dict shared by all backtrack frames
    stack,          \* live backtrack frames, innermost last
    result,         \* what the call under way returned, "pending" before it does
    arg,            \* the argument of a call a caller makes directly, else None
    board,          \* tictactoe.py: the board under play, else None
    game,           \* minesweeper.py: the Minesweeper game [height, width, mines], else None
    ai              \* minesweeper.py: the fields of the MinesweeperAI, else None

vars == <<crossword, domains, pc, queue, ac3_result, ac3_runs, domains_before,
          assignment, stack, result, arg, board, game, ai>>

-----------------------------------------------------------------------------
(* Bounds of the model *)

\* Largest number of words in the word list.
MaxWords == 4

\* Largest number of ac3() calls made on one CrosswordCreator.
MaxAc3Runs == 2

-----------------------------------------------------------------------------
(* Generic helpers *)

None == "None"

Range(s) == {s[k] : k \in 1..Len(s)}

\* The orders in which Python may iterate the set S.
Perms(S) ==
    {p \in [1..Cardinality(S) -> S] : \A a, b \in 1..Cardinality(S) : p[a] = p[b] => a = b}

Min(S) == CHOOSE m \in S : \A n \in S : m <= n

Max(S) == CHOOSE m \in S : \A n \in S : m >= n

-----------------------------------------------------------------------------
(* The Crossword (crossword.py is not part of the sources: from the spec) *)

ACROSS == "across"

DOWN == "down"

\* Grid structures, each the set of its fillable cells <<row, column>>.
\* Cross: an across word of length 3 on row 0 whose last cell starts a down
\* word of length 3 in column 2.
StructCross == {<<0, 0>>, <<0, 1>>, <<0, 2>>, <<1, 2>>, <<2, 2>>}

\* Chain: across (length 2) - down (length 3) - across (length 2).
StructChain == {<<0, 0>>, <<0, 1>>, <<1, 1>>, <<2, 1>>, <<2, 2>>}

\* Disjoint: three across words of length 2 that share no cell.
StructDisjoint == {<<0, 0>>, <<0, 1>>, <<2, 0>>, <<2, 1>>, <<4, 0>>, <<4, 1>>}

\* H: two down words of length 3 joined by an across word of length 3.
StructH == {<<0, 0>>, <<1, 0>>, <<2, 0>>, <<1, 1>>, <<0, 2>>, <<1, 2>>, <<2, 2>>}

Structures == {StructCross, StructChain, StructH, StructDisjoint}

Height(structure) == Max({c[1] : c \in structure}) + 1

Width(structure) == Max({c[2] : c \in structure}) + 1

\* The cells of a variable, in word order (Variable.cells).
CellsOf(v) ==
    [k \in 1..v.length |->
        <<v.i + (IF v.direction = DOWN THEN k - 1 ELSE 0),
          v.j + (IF v.direction = ACROSS THEN k - 1 ELSE 0)>>]

\* A variable is a maximal run of at least two fillable cells.
IsRun(structure, v) ==
    LET cells == CellsOf(v)
        before == IF v.direction = DOWN THEN <<v.i - 1, v.j>> ELSE <<v.i, v.j - 1>>
        after  == IF v.direction = DOWN THEN <<v.i + v.length, v.j>>
                                        ELSE <<v.i, v.j + v.length>>
    IN  /\ Range(cells) \subseteq structure
        /\ before \notin structure
        /\ after \notin structure

VariablesOf(structure) ==
    LET h == Height(structure)
        w == Width(structure)
    IN  {v \in [i : 0..(h - 1), j : 0..(w - 1), direction : {ACROSS, DOWN},
                length : 2..Max({h, w})] : IsRun(structure, v)}

\* crossword.overlaps[x, y]: None, or <<offset in x, offset in y>> (0-based).
Overlap(x, y) ==
    LET cx == CellsOf(x)
        cy == CellsOf(y)
        shared == Range(cx) \cap Range(cy)
    IN  IF x = y \/ shared = {} THEN None
        ELSE LET c == CHOOSE c \in shared : TRUE
             IN  <<(CHOOSE k \in 1..Len(cx) : cx[k] = c) - 1,
                   (CHOOSE k \in 1..Len(cy) : cy[k] = c) - 1>>

\* crossword.neighbors(var)
Neighbors(var) ==
    {v \in crossword.variables : v # var /\ Overlap(v, var) # None}

\* The dictionary the word lists are drawn from.
Dictionary ==
    {<<"a", "b">>, <<"b", "b">>,
     <<"a", "a", "a">>, <<"a", "a", "b">>, <<"b", "b", "a">>, <<"b", "b", "b">>}

WordLists == {W \in SUBSET Dictionary : Cardinality(W) <= MaxWords}

-----------------------------------------------------------------------------
(* CrosswordCreator.__init__ *)

Init ==
    /\ crossword \in {[structure |-> s, variables |-> VariablesOf(s), words |-> W] :
                        s \in Structures, W \in WordLists}
    /\ domains = [var \in crossword.variables |-> crossword.words]
    /\ pc = "start"
    /\ queue = <<>>
    /\ ac3_result = "none"
    /\ ac3_runs = 0
    /\ domains_before = domains
    /\ assignment = <<>>
    /\ stack = <<>>
    /\ result = "pending"
    /\ arg = None
    /\ board = None
    /\ game = None
    /\ ai = None

-----------------------------------------------------------------------------
(* enforce_node_consistency *)

\* Mutant: the length test written as "shorter than".
MutNodeConsistentShorter(doms) ==
    [var \in DOMAIN doms |->
        doms[var] \ {word \in crossword.words : Len(word) < var.length}]

NodeConsistent(doms) ==
    [var \in DOMAIN doms |->
        doms[var] \ {word \in crossword.words : Len(word) # var.length}]

EnforceNodeConsistency ==
    /\ pc = "start"
    /\ domains' = NodeConsistent(domains)
    /\ pc' = "ac3"
    /\ UNCHANGED <<crossword, queue, ac3_result, ac3_runs, domains_before,
                   assignment, stack, result, arg,
                   board, game, ai>>

-----------------------------------------------------------------------------
(* revise and ac3 *)

\* Mutant: revise stops at the first word it finds without support.
MutReviseFirstOnly(doms, x, y) ==
    LET overlaps == Overlap(x, y)
    IN  IF overlaps = None THEN [revised |-> FALSE, domains |-> doms]
        ELSE LET unsupported ==
                     {w1 \in doms[x] :
                        \A w2 \in doms[y] : w1[overlaps[1] + 1] # w2[overlaps[2] + 1]}
                 to_be_removed ==
                     IF unsupported = {} THEN {} ELSE {CHOOSE w \in unsupported : TRUE}
             IN  [revised |-> to_be_removed # {},
                  domains |-> [doms EXCEPT ![x] = @ \ to_be_removed]]

\* Mutant: the two offsets of the overlap are exchanged.
MutReviseSwappedOffsets(doms, x, y) ==
    LET overlaps == Overlap(x, y)
    IN  IF overlaps = None THEN [revised |-> FALSE, domains |-> doms]
        ELSE LET to_be_removed ==
                     {w1 \in doms[x] :
                        \A w2 \in doms[y] : w1[overlaps[2] + 1] # w2[overlaps[1] + 1]}
             IN  [revised |-> to_be_removed # {},
                  domains |-> [doms EXCEPT ![x] = @ \ to_be_removed]]

\* Mutant: a pair without overlap is revised on the first letters.
MutReviseNoOverlapFirstLetters(doms, x, y) ==
    LET overlaps == IF Overlap(x, y) = None THEN <<0, 0>> ELSE Overlap(x, y)
        to_be_removed ==
            {w1 \in doms[x] :
                \A w2 \in doms[y] : w1[overlaps[1] + 1] # w2[overlaps[2] + 1]}
    IN  [revised |-> to_be_removed # {},
         domains |-> [doms EXCEPT ![x] = @ \ to_be_removed]]

\* Mutant: the unsupported words of domain(y) are removed as well.
MutRevisePrunesBoth(doms, x, y) ==
    LET overlaps == Overlap(x, y)
    IN  IF overlaps = None THEN [revised |-> FALSE, domains |-> doms]
        ELSE LET to_be_removed ==
                     {w1 \in doms[x] :
                        \A w2 \in doms[y] : w1[overlaps[1] + 1] # w2[overlaps[2] + 1]}
                 also_removed ==
                     {w2 \in doms[y] :
                        \A w1 \in doms[x] : w1[overlaps[1] + 1] # w2[overlaps[2] + 1]}
             IN  [revised |-> to_be_removed # {},
                  domains |-> [doms EXCEPT ![x] = @ \ to_be_removed,
                                           ![y] = @ \ also_removed]]

\* revise(x, y): the new domains and the returned flag.
Revise(doms, x, y) ==
    LET overlaps == Overlap(x, y)
    IN  IF overlaps = None THEN [revised |-> FALSE, domains |-> doms]
        ELSE LET to_be_removed ==
                     {w1 \in doms[x] :
                        \A w2 \in doms[y] : w1[overlaps[1] + 1] # w2[overlaps[2] + 1]}
             IN  [revised |-> to_be_removed # {},
                  domains |-> [doms EXCEPT ![x] = @ \ to_be_removed]]

\* Lines 147-151: append each arc not yet in the queue.
RECURSIVE AppendNew(_, _)
AppendNew(q, arcs) ==
    IF arcs = <<>> THEN q
    ELSE AppendNew(IF Head(arcs) \in Range(q) THEN q ELSE Append(q, Head(arcs)),
                   Tail(arcs))

RECURSIVE InitialQueue(_, _)
\* varOrder: the iteration order of crossword.variables;
\* nbOrder[var]: the iteration order of crossword.neighbors(var).
InitialQueue(varOrder, nbOrder) ==
    IF varOrder = <<>> THEN <<>>
    ELSE LET var == varOrder[Len(varOrder)]
             rest == InitialQueue(SubSeq(varOrder, 1, Len(varOrder) - 1), nbOrder)
         IN  AppendNew(rest, [k \in 1..Len(nbOrder[var]) |-> <<var, nbOrder[var][k]>>])

NeighborOrders ==
    LET all == UNION {Perms(Neighbors(v)) : v \in crossword.variables}
    IN  {f \in [crossword.variables -> all] :
            \A v \in crossword.variables : f[v] \in Perms(Neighbors(v))}

\* Mutant: nothing is enqueued again after a revision.
MutNewArcsNone(zs, x, y) == <<>>

\* Mutant: the arc (y, x) is enqueued again as well.
MutNewArcsWithY(zs, x, y) == [k \in 1..Len(zs) |-> <<zs[k], x>>]

\* Lines 160-162: the arcs (z, x) for the neighbours z of x other than y.
NewArcs(zs, x, y) ==
    LET keep == SelectSeq(zs, LAMBDA z : z # y)
    IN  [k \in 1..Len(keep) |-> <<keep[k], x>>]

\* Mutant: the head arc is read but left in the queue.
MutPoppedKeepsHead(q) == q

\* Line 156: the queue after queue.pop(0).
Popped(q) == Tail(q)

Ac3Begin ==
    /\ pc = "ac3"
    /\ \E varOrder \in Perms(crossword.variables), nbOrder \in NeighborOrders :
            queue' = InitialQueue(varOrder, nbOrder)
    /\ ac3_runs' = ac3_runs + 1
    /\ ac3_result' = "none"
    /\ domains_before' = domains
    /\ pc' = "ac3_loop"
    /\ UNCHANGED <<crossword, domains, assignment, stack, result, arg,
                   board, game, ai>>

Ac3Step ==
    /\ pc = "ac3_loop"
    /\ queue # <<>>
    /\ LET x == Head(queue)[1]
           y == Head(queue)[2]
           r == Revise(domains, x, y)
       IN  /\ domains' = r.domains
           /\ IF r.revised
              THEN IF r.domains[x] = {}
                   THEN /\ queue' = <<>>
                        /\ ac3_result' = "False"
                        /\ pc' = "ac3_done"
                   ELSE /\ \E zs \in Perms(Neighbors(x)) :
                                queue' = Popped(queue) \o NewArcs(zs, x, y)
                        /\ UNCHANGED <<ac3_result, pc>>
              ELSE /\ queue' = Popped(queue)
                   /\ UNCHANGED <<ac3_result, pc>>
    /\ UNCHANGED <<crossword, ac3_runs, domains_before, assignment, stack, result, arg,
                   board, game, ai>>

Ac3Return ==
    /\ pc = "ac3_loop"
    /\ queue = <<>>
    /\ ac3_result' = "True"
    /\ pc' = "ac3_done"
    /\ UNCHANGED <<crossword, domains, queue, ac3_runs, domains_before,
                   assignment, stack, result, arg,
                   board, game, ai>>

\* A caller runs ac3() once more on the domains a successful ac3() left.
Ac3Again ==
    /\ pc = "ac3_done"
    /\ ac3_result = "True"
    /\ ac3_runs < MaxAc3Runs
    /\ pc' = "ac3"
    /\ UNCHANGED <<crossword, domains, queue, ac3_result, ac3_runs, domains_before,
                   assignment, stack, result, arg,
                   board, game, ai>>

-----------------------------------------------------------------------------
(* Assignments: a dict, kept in insertion order *)

Str(word) == [kind |-> "str", chars |-> word]

Keys(a) == {a[k].key : k \in 1..Len(a)}

\* a[var]
Get(a, var) == a[CHOOSE k \in 1..Len(a) : a[k].key = var].val

\* a[var] = val
Put(a, var, val) ==
    IF var \in Keys(a)
    THEN [k \in 1..Len(a) |-> IF a[k].key = var THEN [key |-> var, val |-> val] ELSE a[k]]
    ELSE Append(a, [key |-> var, val |-> val])

\* assignment_complete
AssignmentComplete(a) == Len(a) = Cardinality(crossword.variables)

\* Mutant: a word is compared with the next one only.
MutConsistentAdjacent(a) ==
    LET values == [k \in 1..Len(a) |-> a[k].val]
        keys == [k \in 1..Len(a) |-> a[k].key]
    IN  /\ \A i \in 1..(Len(values) - 1) : values[i] # values[i + 1]
        /\ \A k \in 1..Len(a) : keys[k].length = Len(values[k].chars)
        /\ \A i \in 1..Len(keys) : \A j \in (i + 1)..Len(keys) :
                LET overlaps == Overlap(keys[i], keys[j])
                IN  overlaps # None =>
                        values[i].chars[overlaps[1] + 1] = values[j].chars[overlaps[2] + 1]

\* Mutant: both words are read at the offset of the first.
MutConsistentSameOffset(a) ==
    LET values == [k \in 1..Len(a) |-> a[k].val]
        keys == [k \in 1..Len(a) |-> a[k].key]
    IN  /\ \A i \in 1..Len(values) : \A j \in (i + 1)..Len(values) :
                values[i] # values[j]
        /\ \A k \in 1..Len(a) : keys[k].length = Len(values[k].chars)
        /\ \A i \in 1..Len(keys) : \A j \in (i + 1)..Len(keys) :
                LET overlaps == Overlap(keys[i], keys[j])
                IN  overlaps # None =>
                        values[i].chars[overlaps[1] + 1] = values[j].chars[overlaps[1] + 1]

\* consistent
Consistent(a) ==
    LET values == [k \in 1..Len(a) |-> a[k].val]
        keys == [k \in 1..Len(a) |-> a[k].key]
    IN  /\ \A i \in 1..Len(values) : \A j \in (i + 1)..Len(values) :
                values[i] # values[j]
        /\ \A k \in 1..Len(a) : keys[k].length = Len(values[k].chars)
        /\ \A i \in 1..Len(keys) : \A j \in (i + 1)..Len(keys) :
                LET overlaps == Overlap(keys[i], keys[j])
                IN  overlaps # None =>
                        values[i].chars[overlaps[1] + 1] = values[j].chars[overlaps[2] + 1]

-----------------------------------------------------------------------------
(* select_unassigned_variable *)

RECURSIVE Sorted(_)
\* sorted(S) for a set of integers
Sorted(S) == IF S = {} THEN <<>> ELSE <<Min(S)>> \o Sorted(S \ {Min(S)})

\* Mutant: the variable with the most remaining values is selected.
MutSelectLargestDomain(a, order) ==
    LET sizes == {Cardinality(domains[order[k]]) : k \in 1..Len(order)}
    IN  IF order = <<>> THEN None
        ELSE order[Max({k \in 1..Len(order) :
                            Cardinality(domains[order[k]]) = Max(sizes)})]

\* order: the iteration order of the unassigned variables (lines 263-272).
SelectUnassignedVariable(a, order) ==
    LET sizes == {Cardinality(domains[order[k]]) : k \in 1..Len(order)}
        \* number_of_options[options] = var: the last variable of each size stays
        number_of_options ==
            [n \in sizes |->
                order[Max({k \in 1..Len(order) : Cardinality(domains[order[k]]) = n})]]
        options == Sorted(sizes)
        breaks == {i \in 2..Len(options) : options[i] # options[i - 1]}
        last == IF options = <<>> THEN 0
                ELSE IF breaks = {} THEN Len(options) ELSE Min(breaks) - 1
        sorted_variables == [i \in 1..last |-> number_of_options[options[i]]]
    IN  IF Len(sorted_variables) # 1
        THEN IF sorted_variables = <<>> THEN None
             ELSE LET maxi == Max({Cardinality(Neighbors(sorted_variables[k])) :
                                     k \in 1..Len(sorted_variables)})
                  IN  sorted_variables[Min({k \in 1..Len(sorted_variables) :
                            Cardinality(Neighbors(sorted_variables[k])) = maxi})]
        ELSE sorted_variables[1]

-----------------------------------------------------------------------------
(* order_domain_values *)

RECURSIVE SumOver(_, _)
\* The sum of f[e] over the elements e of S.
SumOver(S, f) ==
    IF S = {} THEN 0
    ELSE LET e == CHOOSE e \in S : TRUE IN f[e] + SumOver(S \ {e}, f)

\* Mutant: the neighbours that are in the assignment are counted too.
MutEliminateCountAllNeighbours(var, a, val) ==
    LET neighbours == Neighbors(var)
        n == [neighbour \in neighbours |->
                LET overlaps == Overlap(var, neighbour)
                IN  (IF val \in domains[neighbour] THEN 1 ELSE 0)
                    + Cardinality({val1 \in domains[neighbour] :
                        val # val1 /\ val[overlaps[1] + 1] # val1[overlaps[2] + 1]})]
    IN  SumOver(neighbours, n)

\* Lines 226-240: the number of neighbour values that val rules out.
EliminateCount(var, a, val) ==
    LET neighbours == Neighbors(var) \ Keys(a)
        n == [neighbour \in neighbours |->
                LET overlaps == Overlap(var, neighbour)
                IN  (IF val \in domains[neighbour] THEN 1 ELSE 0)
                    + Cardinality({val1 \in domains[neighbour] :
                        val # val1 /\ val[overlaps[1] + 1] # val1[overlaps[2] + 1]})]
    IN  SumOver(neighbours, n)

RECURSIVE SortedValues(_, _, _, _)
\* Lines 242-251: repeatedly append the values of minimal count, in list order.
SortedValues(values, eliminate_count, taken, sorted_values) ==
    IF Len(sorted_values) = Len(values) THEN sorted_values
    ELSE LET open == {j \in 1..Len(values) : j \notin taken}
             minim == Min({eliminate_count[j] : j \in open})
             picked == {j \in open : eliminate_count[j] = minim}
             idx == Sorted(picked)
         IN  SortedValues(values, eliminate_count, taken \cup picked,
                          sorted_values \o [k \in 1..Len(idx) |-> values[idx[k]]])

\* values: list(self.domains[var]), in the set's iteration order.
OrderDomainValues(var, a, values) ==
    LET eliminate_count == [j \in 1..Len(values) |-> EliminateCount(var, a, values[j])]
    IN  SortedValues(values, eliminate_count, {}, <<>>)

-----------------------------------------------------------------------------
(* backtrack *)

\* Line 330: [val for val in assignment[var] if val != value]
ListWithout(v, value) ==
    [kind |-> "list", chars |-> SelectSeq(v.chars, LAMBDA val : <<val>> # value)]

\* Lines 329-330
Undo(a, var, value) ==
    IF var \in Keys(a) THEN Put(a, var, ListWithout(Get(a, var), value)) ELSE a

\* solve(), line 94: backtrack(dict())
SolveBacktrack ==
    /\ pc = "ac3_done"
    /\ ac3_runs = 1
    /\ assignment' = <<>>
    /\ stack' = <<>>
    /\ pc' = "call"
    /\ UNCHANGED <<crossword, domains, queue, ac3_result, ac3_runs, domains_before, result,
                   arg,
                   board, game, ai>>

\* Lines 315-319: entry of backtrack(assignment). A complete assignment is
\* returned through every live frame (lines 327-328).
BacktrackCall ==
    /\ pc = "call"
    /\ IF AssignmentComplete(assignment)
       THEN /\ result' = "assignment"
            /\ stack' = <<>>
            /\ pc' = "done"
       ELSE /\ \E order \in Perms(crossword.variables \ Keys(assignment)) :
                LET var == SelectUnassignedVariable(assignment, order)
                IN  \E values \in Perms(domains[var]) :
                        stack' = Append(stack,
                            [var |-> var,
                             values |-> OrderDomainValues(var, assignment, values)])
            /\ pc' = "loop"
            /\ UNCHANGED result
    /\ UNCHANGED <<crossword, domains, queue, ac3_result, ac3_runs, domains_before,
                   assignment, arg,
                   board, game, ai>>

\* Mutant: the loop takes each candidate out of the variable's domain.
MutBacktrackTryConsumesDomain ==
    /\ pc = "loop"
    /\ stack[Len(stack)].values # <<>>
    /\ LET top == stack[Len(stack)]
           var == top.var
           value == Head(top.values)
           assignment_copy == Put(assignment, var, Str(value))
       IN  /\ domains' = [domains EXCEPT ![var] = @ \ {value}]
           /\ IF Consistent(assignment_copy)
              THEN /\ assignment' = Put(assignment, var, Str(value))
                   /\ pc' = "call"
                   /\ UNCHANGED stack
              ELSE /\ assignment' = Undo(assignment, var, value)
                   /\ stack' = [stack EXCEPT ![Len(stack)].values = Tail(@)]
                   /\ pc' = "loop"
    /\ UNCHANGED <<crossword, queue, ac3_result, ac3_runs, domains_before, result,
                   arg, board, game, ai>>

\* Lines 321-330: one iteration of the loop up to the recursive call.
BacktrackTry ==
    /\ pc = "loop"
    /\ stack[Len(stack)].values # <<>>
    /\ LET top == stack[Len(stack)]
           var == top.var
           value == Head(top.values)
           assignment_copy == Put(assignment, var, Str(value))
       IN  IF Consistent(assignment_copy)
           THEN /\ assignment' = Put(assignment, var, Str(value))
                /\ pc' = "call"
                /\ UNCHANGED stack
           ELSE /\ assignment' = Undo(assignment, var, value)
                /\ stack' = [stack EXCEPT ![Len(stack)].values = Tail(@)]
                /\ pc' = "loop"
    /\ UNCHANGED <<crossword, domains, queue, ac3_result, ac3_runs, domains_before, result,
                   arg,
                   board, game, ai>>

\* Mutant: after a nested call returned None the caller tries the same
\* value again.
MutBacktrackFailRetries ==
    /\ pc = "loop"
    /\ stack[Len(stack)].values = <<>>
    /\ IF Len(stack) = 1
       THEN /\ result' = "None"
            /\ stack' = <<>>
            /\ pc' = "done"
            /\ UNCHANGED assignment
       ELSE LET caller == stack[Len(stack) - 1]
            IN  /\ assignment' = Undo(assignment, caller.var, Head(caller.values))
                /\ stack' = SubSeq(stack, 1, Len(stack) - 1)
                /\ pc' = "loop"
                /\ UNCHANGED result
    /\ UNCHANGED <<crossword, domains, queue, ac3_result, ac3_runs, domains_before, arg,
                   board, game, ai>>

\* Line 331: return None; the caller resumes at lines 327-330.
BacktrackFail ==
    /\ pc = "loop"
    /\ stack[Len(stack)].values = <<>>
    /\ IF Len(stack) = 1
       THEN /\ result' = "None"
            /\ stack' = <<>>
            /\ pc' = "done"
            /\ UNCHANGED assignment
       ELSE LET caller == stack[Len(stack) - 1]
            IN  /\ assignment' = Undo(assignment, caller.var, Head(caller.values))
                /\ stack' = [SubSeq(stack, 1, Len(stack) - 1)
                                EXCEPT ![Len(stack) - 1].values = Tail(@)]
                /\ pc' = "loop"
                /\ UNCHANGED result
    /\ UNCHANGED <<crossword, domains, queue, ac3_result, ac3_runs, domains_before, arg,
                   board, game, ai>>

-----------------------------------------------------------------------------

Next ==
    \/ EnforceNodeConsistency
    \/ Ac3Begin
    \/ Ac3Step
    \/ Ac3Return
    \/ Ac3Again
    \/ SolveBacktrack
    \/ BacktrackCall
    \/ BacktrackTry
    \/ BacktrackFail

Spec == Init /\ [][Next]_vars

-----------------------------------------------------------------------------
(* Properties of solve() *)

Returned == pc = "done" /\ result = "assignment"

ReturnedNone == pc = "done" /\ result = "None"

\* a is a solution over the domains doms: one word of its domain per variable,
\* all words distinct, every overlapping pair agreeing at its offsets.
IsSolution(a, doms) ==
    /\ Len(a) = Cardinality(crossword.variables)
    /\ Keys(a) = crossword.variables
    /\ \A k \in 1..Len(a) : a[k].val.kind = "str" /\ a[k].val.chars \in doms[a[k].key]
    /\ \A i, j \in 1..Len(a) : i # j => a[i].val.chars # a[j].val.chars
    /\ \A i, j \in 1..Len(a) :
            LET overlaps == Overlap(a[i].key, a[j].key)
            IN  overlaps # None =>
                    a[i].val.chars[overlaps[1] + 1] = a[j].val.chars[overlaps[2] + 1]

\* C1: whenever solve() returns an assignment, it has exactly one entry per
\* variable, each value is a word of that variable's domain, the words are
\* pairwise distinct and overlapping variables agree at their offsets.
C1_ReturnedAssignmentIsSolution == Returned => IsSolution(assignment, domains)

\* Some complete assignment drawn from doms satisfies every constraint.
SolutionExists(doms) ==
    \E f \in [crossword.variables -> crossword.words] :
        /\ \A v \in crossword.variables : f[v] \in doms[v]
        /\ \A v, w \in crossword.variables : v # w => f[v] # f[w]
        /\ \A v, w \in crossword.variables :
                LET overlaps == Overlap(v, w)
                IN  overlaps # None => f[v][overlaps[1] + 1] = f[w][overlaps[2] + 1]

\* C2: search completeness: if some complete assignment drawn from the
\* post-AC3 domains satisfies the distinct-words, length and overlap
\* constraints, backtrack({}) does not return None.
C2_SearchComplete == ReturnedNone => ~SolutionExists(domains)

-----------------------------------------------------------------------------
(* Properties of node consistency and ac3() *)

\* The words of the word list that have the length of var.
WordsOfLength(var) == {w \in crossword.words : Len(w) = var.length}

\* Every word of every domain has a supporting word in each overlapping domain.
ArcConsistent(doms) ==
    \A x, y \in crossword.variables :
        LET overlaps == Overlap(x, y)
        IN  overlaps # None =>
                \A w \in doms[x] : \E w2 \in doms[y] :
                    w[overlaps[1] + 1] = w2[overlaps[2] + 1]

SomeOverlap == \E x, y \in crossword.variables : Overlap(x, y) # None

\* C3: after ac3() returns success, every word of domain(x) has a word of
\* domain(y) that agrees with it at the overlap, for every overlapping (x, y).
C3_ArcConsistentAfterAc3 == ac3_result = "True" => ArcConsistent(domains)

\* ac3() succeeded after pruning a puzzle that has overlaps, leaving words.
C3_Witness ==
    /\ pc = "ac3_done" /\ ac3_result = "True" /\ ac3_runs = 1
    /\ SomeOverlap
    /\ domains # domains_before
    /\ \A v \in crossword.variables : domains[v] # {}

\* C4: after enforce_node_consistency() every word of every domain has its
\* variable's length and no word of that length was removed; the length
\* invariant holds in every later state of ac3 and backtrack.
C4_NodeConsistency ==
    /\ pc # "start" =>
            \A v \in crossword.variables : \A w \in domains[v] : Len(w) = v.length
    /\ (pc = "ac3" /\ ac3_runs = 0) =>
            \A v \in crossword.variables : domains[v] = WordsOfLength(v)

\* Node consistency removed a word from a domain and kept another.
C4_Witness ==
    /\ pc = "ac3" /\ ac3_runs = 0
    /\ \E v \in crossword.variables : domains[v] # {} /\ domains[v] # crossword.words

\* C5: ac3() returns False whenever some domain is empty when it returns,
\* and returns True only if every domain is non-empty and arc consistent.
C5_Ac3ReportsEmptyDomain ==
    pc = "ac3_done" =>
        /\ (\E v \in crossword.variables : domains[v] = {}) => ac3_result = "False"
        /\ ac3_result = "True" =>
                /\ \A v \in crossword.variables : domains[v] # {}
                /\ ArcConsistent(domains)

\* C6: with an empty word list solve() fails at once: backtracking search is
\* never invoked while some variable's domain is empty.
C6_NoSearchOnEmptyWordList == crossword.words = {} => pc \notin {"call", "loop"}

\* Some length has more variables than the word list has words of it.
Outnumbered ==
    \E v \in crossword.variables :
        Cardinality({u \in crossword.variables : u.length = v.length})
            > Cardinality(WordsOfLength(v))

\* C7: in a puzzle without overlaps ac3 removes nothing, every assignment
\* solve() returns gives pairwise distinct words, and solve() returns
\* no-solution when the variables of some length outnumber the words of it.
C7_DistinctWithoutOverlaps ==
    ~SomeOverlap =>
        /\ pc = "ac3_done" => domains = domains_before
        /\ Returned =>
                \A i, j \in 1..Len(assignment) :
                    i # j => assignment[i].val.chars # assignment[j].val.chars
        /\ (pc = "done" /\ Outnumbered) => result = "None"

\* C9: ac3() run again on the domains a successful ac3() left removes no
\* word from any domain and returns success.
C9_Ac3Idempotent ==
    (pc = "ac3_done" /\ ac3_runs >= 2) => (ac3_result = "True" /\ domains = domains_before)

\* The second ac3() returned on domains that the first had pruned.
C9_Witness ==
    /\ pc = "ac3_done" /\ ac3_runs = 2
    /\ \E v \in crossword.variables : domains[v] # {} /\ domains[v] # WordsOfLength(v)

\* The callers of ac3() alone: node consistency, then ac3(), possibly again.
NextAc3 ==
    \/ EnforceNodeConsistency
    \/ Ac3Begin
    \/ Ac3Step
    \/ Ac3Return
    \/ Ac3Again

\* The program is sequential: the loop of ac3() keeps taking its next step.
SpecAc3Fair == Init /\ [][NextAc3]_vars /\ WF_vars(Ac3Step) /\ WF_vars(Ac3Return)

NumArcs ==
    Cardinality({a \in crossword.variables \X crossword.variables :
                    Overlap(a[1], a[2]) # None})

\* C10: ac3() terminates: its loop always ends, and the worklist does not
\* shrink only in a step whose revision strictly shrank a domain.
C10_Ac3Terminates ==
    /\ (pc = "ac3_loop") ~> (pc = "ac3_done")
    /\ [][(pc = "ac3_loop" /\ pc' = "ac3_loop" /\ Len(queue') >= Len(queue)) =>
            \E v \in crossword.variables :
                /\ domains'[v] \subseteq domains[v]
                /\ domains'[v] # domains[v]]_vars

\* An arc was enqueued again: the worklist is as long as at the start after
\* some arc was popped and some word was pruned.
C10_Witness ==
    /\ pc = "ac3_loop"
    /\ domains # domains_before
    /\ Len(queue) >= NumArcs

-----------------------------------------------------------------------------
(* consistent() called directly on an assignment of words to variables *)

\* The dicts that assign words of the dictionary to some of the variables
\* V, in every insertion order.
AssignmentsOver(V) ==
    UNION {{[k \in 1..n |-> [key |-> ks[k], val |-> Str(ws[k])]] :
                ks \in {p \in [1..n -> V] : \A i, j \in 1..n : p[i] = p[j] => i = j},
                ws \in [1..n -> Dictionary]} : n \in 0..Cardinality(V)}

InitConsistent ==
    /\ crossword \in {[structure |-> s, variables |-> VariablesOf(s),
                       words |-> Dictionary] : s \in Structures}
    /\ domains = [var \in crossword.variables |-> crossword.words]
    /\ pc = "consistent"
    /\ queue = <<>>
    /\ ac3_result = "none"
    /\ ac3_runs = 0
    /\ domains_before = domains
    /\ arg \in AssignmentsOver(crossword.variables)
    /\ assignment = arg
    /\ stack = <<>>
    /\ result = "pending"
    /\ board = None
    /\ game = None
    /\ ai = None

\* consistent(assignment): lines 176-208 assign to neither argument nor domains.
ConsistentCall ==
    /\ pc = "consistent"
    /\ result' = IF Consistent(assignment) THEN "True" ELSE "False"
    /\ pc' = "consistent_done"
    /\ UNCHANGED <<crossword, domains, queue, ac3_result, ac3_runs, domains_before,
                   assignment, stack, arg,
                   board, game, ai>>

NextConsistent == ConsistentCall

SpecConsistent == InitConsistent /\ [][NextConsistent]_vars

\* The three conditions of the Assignment Validator, over the keys of a.
ValidAssignment(a) ==
    /\ \A u, v \in Keys(a) : u # v => Get(a, u) # Get(a, v)
    /\ \A v \in Keys(a) : Len(Get(a, v).chars) = v.length
    /\ \A u, v \in Keys(a) :
            LET overlaps == Overlap(u, v)
            IN  overlaps # None =>
                    Get(a, u).chars[overlaps[1] + 1] = Get(a, v).chars[overlaps[2] + 1]

\* C8: consistent(assignment) returns True exactly when the assigned words
\* are pairwise distinct, each has its variable's length and every
\* overlapping pair of assigned variables agrees at its offsets; the call
\* changes neither the assignment nor the domains.
C8_ConsistentIsValidator ==
    pc = "consistent_done" =>
        /\ result = "True" <=> ValidAssignment(arg)
        /\ assignment = arg
        /\ domains = domains_before

\* consistent() accepted an assignment of three variables that overlap.
C8_Witness ==
    /\ pc = "consistent_done" /\ result = "True"
    /\ Len(arg) = 3
    /\ SomeOverlap

-----------------------------------------------------------------------------
(* solve() on the two-word puzzle of the specification *)

\* The word list of the scenario: cat, dog, tar, rat.
ScenarioWords ==
    {<<"c", "a", "t">>, <<"d", "o", "g">>, <<"t", "a", "r">>, <<"r", "a", "t">>}

\* main(), lines 341-349, on the Cross structure and a word list drawn from
\* the scenario's words.
InitScenario ==
    /\ crossword \in {[structure |-> StructCross, variables |-> VariablesOf(StructCross),
                       words |-> W] : W \in SUBSET ScenarioWords}
    /\ domains = [var \in crossword.variables |-> crossword.words]
    /\ pc = "start"
    /\ queue = <<>>
    /\ ac3_result = "none"
    /\ ac3_runs = 0
    /\ domains_before = domains
    /\ assignment = <<>>
    /\ stack = <<>>
    /\ result = "pending"
    /\ arg = None
    /\ board = None
    /\ game = None
    /\ ai = None

SpecScenario == InitScenario /\ [][Next]_vars

\* The across word of the Cross structure and the down word it ends on.
ScenarioAcross == [i |-> 0, j |-> 0, direction |-> ACROSS, length |-> 3]

ScenarioDown == [i |-> 0, j |-> 2, direction |-> DOWN, length |-> 3]

\* C11: on the two-variable puzzle with the word list {cat, dog, tar, rat}
\* solve() returns an assignment, not no-solution: two distinct words of the
\* list, the last letter of the across word being the first of the down word.
C11_ScenarioSolved ==
    (crossword.words = ScenarioWords /\ pc = "done") =>
        /\ result = "assignment"
        /\ Keys(assignment) = {ScenarioAcross, ScenarioDown}
        /\ Len(assignment) = 2
        /\ LET across == Get(assignment, ScenarioAcross)
               down == Get(assignment, ScenarioDown)
           IN  /\ across.kind = "str" /\ down.kind = "str"
               /\ across.chars \in ScenarioWords
               /\ down.chars \in ScenarioWords
               /\ across.chars # down.chars
               /\ across.chars[3] = down.chars[1]

\* solve() returned cat across and tar down on the full word list.
C11_Witness ==
    /\ crossword.words = ScenarioWords
    /\ Returned
    /\ Get(assignment, ScenarioAcross) = Str(<<"c", "a", "t">>)
    /\ Get(assignment, ScenarioDown) = Str(<<"t", "a", "r">>)

-----------------------------------------------------------------------------
(* Properties of the search phase *)

\* C12: the search phase never changes the domains: from the call of
\* backtrack({}) until it returns, no step of backtrack,
\* select_unassigned_variable, order_domain_values or consistent changes the
\* domain of any variable.
C12_SearchKeepsDomains ==
    [][pc' \in {"call", "loop", "done"} => domains' = domains]_vars

\* The search tried candidates and gave up on a puzzle with overlaps whose
\* domains all hold words.
C12_Witness ==
    /\ ReturnedNone
    /\ SomeOverlap
    /\ \A v \in crossword.variables : domains[v] # {}

\* C17: a failed candidate is undone: whenever a frame of backtrack is
\* between candidates the assignment holds exactly the entries of its
\* callers, and when backtrack({}) returns None the assignment is empty
\* again.
C17_UndoRestoresAssignment ==
    /\ pc = "loop" => Keys(assignment) = {stack[k].var : k \in 1..(Len(stack) - 1)}
    /\ ReturnedNone => assignment = <<>>

-----------------------------------------------------------------------------
(* revise() called directly on node-consistent domains *)

\* Every choice of a domain for each variable among the dictionary's words
\* of the variable's length, and every ordered pair of distinct variables.
InitRevise ==
    /\ crossword \in {[structure |-> s, variables |-> VariablesOf(s),
                       words |-> Dictionary] : s \in Structures}
    /\ domains \in [crossword.variables -> SUBSET Dictionary]
    /\ \A v \in crossword.variables : domains[v] \subseteq WordsOfLength(v)
    /\ pc = "revise"
    /\ queue = <<>>
    /\ ac3_result = "none"
    /\ ac3_runs = 0
    /\ domains_before = domains
    /\ arg \in {p \in crossword.variables \X crossword.variables : p[1] # p[2]}
    /\ assignment = <<>>
    /\ stack = <<>>
    /\ result = "pending"
    /\ board = None
    /\ game = None
    /\ ai = None

\* revise(x, y), lines 107-135
ReviseCall ==
    /\ pc = "revise"
    /\ LET r == Revise(domains, arg[1], arg[2])
       IN  /\ domains' = r.domains
           /\ result' = IF r.revised THEN "True" ELSE "False"
    /\ pc' = "revise_done"
    /\ UNCHANGED <<crossword, queue, ac3_result, ac3_runs, domains_before,
                   assignment, stack, arg, board, game, ai>>

NextRevise == ReviseCall

SpecRevise == InitRevise /\ [][NextRevise]_vars

\* The words of doms[x] that some word of doms[y] agrees with at the overlap.
Supported(doms, x, y) ==
    LET overlaps == Overlap(x, y)
    IN  {w \in doms[x] : \E w2 \in doms[y] : w[overlaps[1] + 1] = w2[overlaps[2] + 1]}

\* C18: revise(x, y) on overlapping variables leaves in domain(x) exactly the
\* words that some word of domain(y) agrees with at the overlap, and returns
\* True exactly when it removed a word.
C18_ReviseRemovesUnsupported ==
    (pc = "revise_done" /\ Overlap(arg[1], arg[2]) # None) =>
        /\ domains[arg[1]] = Supported(domains_before, arg[1], arg[2])
        /\ result = "True" <=> domains[arg[1]] # domains_before[arg[1]]

\* revise() removed a word from domain(x) and kept another.
C18_Witness ==
    /\ pc = "revise_done" /\ result = "True"
    /\ Overlap(arg[1], arg[2]) # None
    /\ domains[arg[1]] # {}
    /\ domains[arg[1]] # domains_before[arg[1]]

\* C19: revise(x, y) on variables without overlap removes no word from any
\* domain and returns False, whatever the two domains hold.
C19_ReviseSkipsNoOverlap ==
    (pc = "revise_done" /\ Overlap(arg[1], arg[2]) = None) =>
        /\ domains = domains_before
        /\ result = "False"

\* revise() returned on a pair without overlap whose domain(y) is empty and
\* whose domain(x) is not.
C19_Witness ==
    /\ pc = "revise_done"
    /\ Overlap(arg[1], arg[2]) = None
    /\ domains[arg[1]] # {}
    /\ domains[arg[2]] = {}

-----------------------------------------------------------------------------
(* The worklist of ac3() *)

\* Every ordered pair of overlapping variables.
AllArcs ==
    {a \in crossword.variables \X crossword.variables : Overlap(a[1], a[2]) # None}

\* C20: the worklist of ac3(): it starts as every ordered pair of overlapping
\* variables, each once; every step revises the arc at the head and removes
\* it; a revision that removed a word and left domain(x) non-empty appends
\* exactly the arcs (z, x) for the neighbours z of x other than y, each once;
\* a revision that removed nothing appends nothing.
C20_WorklistProtocol ==
    [][/\ (pc = "ac3" /\ pc' = "ac3_loop") =>
            /\ Range(queue') = AllArcs
            /\ Len(queue') = Cardinality(AllArcs)
       /\ (pc = "ac3_loop" /\ pc' = "ac3_loop") =>
            LET x == Head(queue)[1]
                y == Head(queue)[2]
                added == SubSeq(queue', Len(queue), Len(queue'))
                expected == {<<z, x>> : z \in Neighbors(x) \ {y}}
            IN  /\ domains' = [domains EXCEPT ![x] = Supported(domains, x, y)]
                /\ Len(queue') >= Len(queue) - 1
                /\ SubSeq(queue', 1, Len(queue) - 1) = Tail(queue)
                /\ IF domains'[x] # domains[x]
                   THEN /\ Range(added) = expected
                        /\ Len(added) = Cardinality(expected)
                   ELSE added = <<>>]_vars

\* A revision appended an arc that was still waiting in the worklist.
C20_Witness ==
    /\ pc = "ac3_loop"
    /\ domains # domains_before
    /\ Cardinality(Range(queue)) < Len(queue)

-----------------------------------------------------------------------------
(***************************************************************************)
(* Part II: tic-tac-toe (src/Search/tictactoe/tictactoe.py)                *)
(*                                                                         *)
(* A board is the list of its three rows; an action is <<i, j>>, 0-based   *)
(* as in the code, so board[i][j] of the code is board[i + 1][j + 1] here. *)
(***************************************************************************)

X == "X"

O == "O"

EMPTY == None

initial_state ==
    <<<<EMPTY, EMPTY, EMPTY>>,
      <<EMPTY, EMPTY, EMPTY>>,
      <<EMPTY, EMPTY, EMPTY>>>>

\* board[i][j]
At(b, i, j) == b[i + 1][j + 1]

\* The number of cells of b that hold symbol.
Count(b, symbol) ==
    Cardinality({c \in (0..2) \X (0..2) : At(b, c[1], c[2]) = symbol})

Player(b) == IF Count(b, O) >= Count(b, X) THEN X ELSE O

Actions(b) == {c \in (0..2) \X (0..2) : At(b, c[1], c[2]) = EMPTY}

\* result(board, action) for an empty cell; line 61 raises for any other.
Result(b, action) ==
    [b EXCEPT ![action[1] + 1][action[2] + 1] = Player(b)]

vertical_winner(b, player_symbol) ==
    \/ At(b, 0, 0) = player_symbol /\ At(b, 1, 0) = player_symbol /\ At(b, 2, 0) = player_symbol
    \/ At(b, 0, 1) = player_symbol /\ At(b, 1, 1) = player_symbol /\ At(b, 2, 1) = player_symbol
    \/ At(b, 0, 2) = player_symbol /\ At(b, 1, 2) = player_symbol /\ At(b, 2, 2) = player_symbol

horizontal_winner(b, player_symbol) ==
    \/ At(b, 0, 0) = player_symbol /\ At(b, 0, 1) = player_symbol /\ At(b, 0, 2) = player_symbol
    \/ At(b, 1, 0) = player_symbol /\ At(b, 1, 1) = player_symbol /\ At(b, 1, 2) = player_symbol
    \/ At(b, 2, 0) = player_symbol /\ At(b, 2, 1) = player_symbol /\ At(b, 2, 2) = player_symbol

diagonally_winner(b, player_symbol) ==
    \/ At(b, 0, 0) = player_symbol /\ At(b, 1, 1) = player_symbol /\ At(b, 2, 2) = player_symbol
    \/ At(b, 0, 2) = player_symbol /\ At(b, 1, 1) = player_symbol /\ At(b, 2, 0) = player_symbol

Winner(b) ==
    IF vertical_winner(b, X) THEN X
    ELSE IF vertical_winner(b, O) THEN O
    ELSE IF horizontal_winner(b, X) THEN X
    ELSE IF horizontal_winner(b, O) THEN O
    ELSE IF diagonally_winner(b, X) THEN X
    ELSE IF diagonally_winner(b, O) THEN O
    ELSE None

Terminal(b) == Winner(b) # None \/ Actions(b) = {}

Utility(b) == IF Winner(b) = X THEN 1 ELSE IF Winner(b) = O THEN -1 ELSE 0

\* The actions of b as a list. max_value and min_value stop only at the
\* largest (smallest) value there is, so what they return does not depend
\* on the order in which the set is iterated: row-major order is taken.
RECURSIVE ActionList(_, _)
ActionList(b, k) ==
    IF k > 8 THEN <<>>
    ELSE LET c == <<k \div 3, k % 3>>
         IN  (IF c \in Actions(b) THEN <<c>> ELSE <<>>) \o ActionList(b, k + 1)

RECURSIVE MaxLoop(_, _, _), MinLoop(_, _, _)
\* Lines 204-208: the loop of max_value; v = -2 stands for -math.inf.
MaxLoop(state, todo, v) ==
    IF todo = <<>> \/ v = 1 THEN v
    ELSE LET next == Result(state, Head(todo))
             m == IF Terminal(next) THEN Utility(next)
                  ELSE MinLoop(next, ActionList(next, 0), 2)
         IN  MaxLoop(state, Tail(todo), IF m > v THEN m ELSE v)

\* Lines 215-219: the loop of min_value; v = 2 stands for math.inf.
MinLoop(state, todo, v) ==
    IF todo = <<>> \/ v = -1 THEN v
    ELSE LET next == Result(state, Head(todo))
             m == IF Terminal(next) THEN Utility(next)
                  ELSE MaxLoop(next, ActionList(next, 0), -2)
         IN  MinLoop(state, Tail(todo), IF m < v THEN m ELSE v)

max_value(state) ==
    IF Terminal(state) THEN Utility(state) ELSE MaxLoop(state, ActionList(state, 0), -2)

min_value(state) ==
    IF Terminal(state) THEN Utility(state) ELSE MinLoop(state, ActionList(state, 0), 2)

\* What the loop of minimax computes for each action before it decides.
RECURSIVE MoveValues(_, _)
MoveValues(b, todo) ==
    IF todo = <<>> THEN <<>>
    ELSE LET next == Result(b, Head(todo))
         IN  <<[action |-> Head(todo),
                 wins |-> Winner(next) = X,
                 move_value |-> IF Player(b) = X THEN min_value(next)
                                                 ELSE max_value(next)]>>
             \o MoveValues(b, Tail(todo))

RECURSIVE MinimaxLoopX(_, _, _), MinimaxLoopO(_, _, _)
\* Lines 172-182: the loop for X over the actions still to come, in every
\* order the set may be iterated in; the set of actions it may return.
MinimaxLoopX(todo, best_value, op_move) ==
    IF todo = {} THEN {op_move}
    ELSE UNION {IF m.wins THEN {m.action}
                ELSE IF m.move_value = 1
                     THEN MinimaxLoopX(todo \ {m}, 1, m.action)
                ELSE IF m.move_value > best_value
                     THEN MinimaxLoopX(todo \ {m}, m.move_value, m.action)
                ELSE MinimaxLoopX(todo \ {m}, best_value, op_move) : m \in todo}

\* Lines 190-197: the loop for O.
MinimaxLoopO(todo, best_value, op_move) ==
    IF todo = {} THEN {op_move}
    ELSE UNION {IF m.move_value = -1 THEN {m.action}
                ELSE IF m.move_value < best_value
                     THEN MinimaxLoopO(todo \ {m}, m.move_value, m.action)
                ELSE MinimaxLoopO(todo \ {m}, best_value, op_move) : m \in todo}

\* None where a cell <<i, j>> may be returned instead.
NoMove == <<>>

\* minimax(board): the set of values it may return.
Minimax(b) ==
    IF Terminal(b) THEN {NoMove}
    ELSE IF <<1, 1>> \in Actions(b) THEN {<<1, 1>>}
    ELSE LET todo == Range(MoveValues(b, ActionList(b, 0)))
         IN  IF Player(b) = X THEN MinimaxLoopX(todo, -1, <<1, 1>>)
                              ELSE MinimaxLoopO(todo, 1, <<1, 1>>)

InitTicTacToe ==
    /\ board = initial_state
    /\ pc = "play"
    /\ result = "pending"
    /\ arg = None
    /\ crossword = None
    /\ domains = None
    /\ queue = <<>>
    /\ ac3_result = "none"
    /\ ac3_runs = 0
    /\ domains_before = None
    /\ assignment = <<>>
    /\ stack = <<>>
    /\ game = None
    /\ ai = None

\* Either player makes a legal move: board = result(board, action).
Play ==
    /\ ~Terminal(board)
    /\ \E action \in Actions(board) : board' = Result(board, action)
    /\ pc' = "play"
    /\ result' = "pending"
    /\ UNCHANGED <<crossword, domains, queue, ac3_result, ac3_runs, domains_before,
                   assignment, stack, arg, game, ai>>

\* minimax(board) is asked for a move.
MinimaxCall ==
    /\ pc = "play"
    /\ result' \in Minimax(board)
    /\ pc' = "minimax_done"
    /\ UNCHANGED <<crossword, domains, queue, ac3_result, ac3_runs, domains_before,
                   assignment, stack, arg, board, game, ai>>

NextTicTacToe ==
    \/ Play
    \/ MinimaxCall

SpecTicTacToe == InitTicTacToe /\ [][NextTicTacToe]_vars

RECURSIVE CanForce(_, _)
\* The player symbol wins from b whatever the opponent plays.
CanForce(b, symbol) ==
    IF Terminal(b) THEN Winner(b) = symbol
    ELSE IF Player(b) = symbol
         THEN \E a \in Actions(b) : CanForce(Result(b, a), symbol)
         ELSE \A a \in Actions(b) : CanForce(Result(b, a), symbol)

\* The value of b under best play by both sides: 1 if X can force a win,
\* -1 if O can, 0 otherwise.
GameValue(b) == IF CanForce(b, X) THEN 1 ELSE IF CanForce(b, O) THEN -1 ELSE 0

\* C13: on every non-terminal board reachable by legal moves minimax returns
\* an optimal action: an empty cell whose resulting board has the value the
\* player to move can force.
C13_MinimaxOptimal ==
    (pc = "minimax_done" /\ ~Terminal(board)) =>
        /\ result \in Actions(board)
        /\ GameValue(Result(board, result)) = GameValue(board)

-----------------------------------------------------------------------------
(***************************************************************************)
(* Part III: minesweeper (src/minesweeper/minesweeper.py)                  *)
(*                                                                         *)
(* A cell is <<i, j>>, 0-based. A Sentence is [cells, count]. The          *)
(* MinesweeperAI is [height, width, moves_made, mines, safes, knowledge,   *)
(* raised], knowledge being the list of its sentences and raised telling   *)
(* that a list.remove() found nothing to remove (ValueError).              *)
(***************************************************************************)

\* Largest number of cells of the board, largest number of mines on it.
MaxCells == 6

MaxMines == 2

\* Lines 157-159: the cells of a board.
BoardCells(height, width) == (0..(height - 1)) \X (0..(width - 1))

\* The cells within one row and column of cell, cell excluded.
Around(cell) ==
    {c \in ((cell[1] - 1)..(cell[1] + 1)) \X ((cell[2] - 1)..(cell[2] + 1)) : c # cell}

\* Minesweeper.is_mine
is_mine(g, cell) == cell \in g.mines

\* Minesweeper.nearby_mines
nearby_mines(g, cell) ==
    Cardinality({c \in Around(cell) \cap BoardCells(g.height, g.width) : is_mine(g, c)})

\* Sentence(cells, count)
Sentence(cells, count) == [cells |-> cells, count |-> count]

\* Sentence.known_mines; its callers (line 228) do not tell None from the
\* empty set, and the empty set stands for both.
known_mines(sentence) ==
    IF Cardinality(sentence.cells) = sentence.count THEN sentence.cells ELSE {}

\* Sentence.known_safes, None again as the empty set (line 231).
known_safes(sentence) == IF sentence.count = 0 THEN sentence.cells ELSE {}

\* Mutant: a mine is taken out of the sentence and the count is kept.
MutSentenceMarkMineKeepsCount(sentence, cell) ==
    IF cell \in sentence.cells
    THEN Sentence(sentence.cells \ {cell}, sentence.count)
    ELSE sentence

\* Sentence.mark_mine
SentenceMarkMine(sentence, cell) ==
    IF cell \in sentence.cells
    THEN Sentence(sentence.cells \ {cell}, sentence.count - 1)
    ELSE sentence

\* Sentence.mark_safe
SentenceMarkSafe(sentence, cell) ==
    IF cell \in sentence.cells
    THEN Sentence(sentence.cells \ {cell}, sentence.count)
    ELSE sentence

\* MinesweeperAI.mark_mine
mark_mine(a, cell) ==
    [a EXCEPT !.mines = @ \cup {cell},
              !.knowledge = [k \in 1..Len(@) |-> SentenceMarkMine(@[k], cell)]]

\* MinesweeperAI.mark_safe
mark_safe(a, cell) ==
    [a EXCEPT !.safes = @ \cup {cell},
              !.knowledge = [k \in 1..Len(@) |-> SentenceMarkSafe(@[k], cell)]]

RECURSIVE MarkMines(_, _), MarkSafes(_, _)
\* Lines 229-230: mark_mine for every cell of a copied set; the marks of
\* different cells commute, so the order of the set does not matter.
MarkMines(a, cells) ==
    IF cells = {} THEN a
    ELSE LET mine == CHOOSE c \in cells : TRUE
         IN  MarkMines(mark_mine(a, mine), cells \ {mine})

\* Lines 232-233
MarkSafes(a, cells) ==
    IF cells = {} THEN a
    ELSE LET safe == CHOOSE c \in cells : TRUE
         IN  MarkSafes(mark_safe(a, safe), cells \ {safe})

\* MinesweeperAI.get_neighbours, as the set its caller makes of the list.
get_neighbours(a, cell) ==
    {c \in Around(cell) \cap BoardCells(a.height, a.width) : c \notin a.moves_made}

\* sentence in list
InList(sentence, list) == \E k \in 1..Len(list) : list[k] = sentence

\* list.remove(sentence): the list without its first element equal to it.
RemoveFirst(list, sentence) ==
    LET k == Min({n \in 1..Len(list) : list[n] = sentence})
    IN  SubSeq(list, 1, k - 1) \o SubSeq(list, k + 1, Len(list))

RECURSIVE InferLoop(_, _)
\* Lines 227-233: the loop over self.knowledge, from its k-th sentence on.
InferLoop(a, k) ==
    IF k > Len(a.knowledge) THEN a
    ELSE LET mines == known_mines(a.knowledge[k])
             a1 == IF mines # {} THEN MarkMines(a, mines) ELSE a
             safes == known_safes(a1.knowledge[k])
             a2 == IF safes # {} THEN MarkSafes(a1, safes) ELSE a1
         IN  InferLoop(a2, k + 1)

RECURSIVE SubsetInner(_, _, _, _)
\* Lines 241-261: the loop over sentence1, from the j-th element on.
SubsetInner(a, sentence, known_knowledge, j) ==
    IF j > Len(known_knowledge) THEN a
    ELSE LET sentence1 == known_knowledge[j]
             longer == Cardinality(sentence.cells) > Cardinality(sentence1.cells)
             bigger == IF longer THEN sentence ELSE sentence1
             smaller == IF longer THEN sentence1 ELSE sentence
             diff_count == bigger.count - smaller.count
             diff_cells == bigger.cells \ smaller.cells
             a1 == IF Cardinality(sentence.cells) = Cardinality(sentence1.cells) THEN a
                   ELSE IF ~(smaller.cells \subseteq bigger.cells) THEN a
                   ELSE IF Cardinality(diff_cells) = 1
                        THEN LET cell == CHOOSE c \in diff_cells : TRUE
                             IN  IF diff_count = 0 THEN mark_safe(a, cell)
                                 ELSE IF diff_count = 1 THEN mark_mine(a, cell)
                                 ELSE a
                   ELSE IF InList(Sentence(diff_cells, diff_count), a.knowledge) THEN a
                   ELSE [a EXCEPT !.knowledge = Append(@, Sentence(diff_cells, diff_count))]
         IN  SubsetInner(a1, sentence, known_knowledge, j + 1)

RECURSIVE SubsetLoop(_, _, _)
\* Lines 236-261: the loop over the copy known_knowledge. The list iterator
\* reads the element at its index i and moves on by one while line 237
\* takes an element out of the list it iterates.
SubsetLoop(a, known_knowledge, i) ==
    IF i > Len(known_knowledge) THEN a
    ELSE LET sentence == known_knowledge[i]
             rest == RemoveFirst(known_knowledge, sentence)
         IN  IF sentence.cells = {}
             THEN SubsetLoop(
                    IF InList(sentence, a.knowledge)
                    THEN [a EXCEPT !.knowledge = RemoveFirst(@, sentence)]
                    ELSE [a EXCEPT !.raised = TRUE],
                    rest, i + 1)
             ELSE SubsetLoop(SubsetInner(a, sentence, rest, 1), rest, i + 1)

\* MinesweeperAI.add_knowledge
add_knowledge(a, cell, count) ==
    LET a1 == mark_safe([a EXCEPT !.moves_made = @ \cup {cell}], cell)
        new == Sentence(get_neighbours(a1, cell), count)
        a3 == IF InList(new, a1.knowledge) THEN a1
              ELSE [a1 EXCEPT !.knowledge = Append(@, new)]
        a4 == InferLoop(a3, 1)
    IN  SubsetLoop(a4, a4.knowledge, 1)

\* Mutant: a safe cell is returned whether or not it was played.
MutMakeSafeMoveAnySafe(a) == IF a.safes = {} THEN {NoMove} ELSE a.safes

\* MinesweeperAI.make_safe_move: the moves it may return. The loop returns
\* the first cell of self.safes, in the set's order, that was not played.
make_safe_move(a) ==
    IF a.safes \ a.moves_made = {} THEN {NoMove} ELSE a.safes \ a.moves_made

\* Mutant: cells known to be mines are chosen as well.
MutMakeRandomMoveIgnoresMines(a) ==
    LET potential_move ==
            {cell \in BoardCells(a.height, a.width) : cell \notin a.moves_made}
    IN  IF potential_move = {} THEN {NoMove} ELSE potential_move

\* MinesweeperAI.make_random_move: the moves random.choice may return;
\* nothing is returned (None) when there is no potential move.
make_random_move(a) ==
    LET potential_move ==
            {cell \in BoardCells(a.height, a.width) :
                cell \notin a.mines /\ cell \notin a.moves_made}
    IN  IF potential_move = {} THEN {NoMove} ELSE potential_move

\* Minesweeper.__init__ and MinesweeperAI.__init__ for the same board.
InitMinesweeper ==
    /\ game \in UNION {{[height |-> shape[1], width |-> shape[2], mines |-> m] :
                            m \in {m \in SUBSET BoardCells(shape[1], shape[2]) :
                                    Cardinality(m) <= MaxMines}} :
                        shape \in {p \in (1..MaxCells) \X (1..MaxCells) :
                                    p[1] * p[2] <= MaxCells}}
    /\ ai = [height |-> game.height, width |-> game.width, moves_made |-> {},
             mines |-> {}, safes |-> {}, knowledge |-> <<>>, raised |-> FALSE]
    /\ pc = "idle"
    /\ result = "pending"
    /\ arg = None
    /\ board = None
    /\ crossword = None
    /\ domains = None
    /\ queue = <<>>
    /\ ac3_result = "none"
    /\ ac3_runs = 0
    /\ domains_before = None
    /\ assignment = <<>>
    /\ stack = <<>>

\* A move was returned and its cell is still to be revealed by the caller.
Pending ==
    /\ pc \in {"safe_move_done", "random_move_done"}
    /\ result # NoMove

\* move = ai.make_safe_move(), lines 272-279
MakeSafeMove ==
    /\ ~Pending
    /\ \E move \in make_safe_move(ai) :
            /\ result' = move
            /\ ai' = IF move = NoMove THEN ai ELSE [ai EXCEPT !.moves_made = @ \cup {move}]
    /\ pc' = "safe_move_done"
    /\ UNCHANGED <<crossword, domains, queue, ac3_result, ac3_runs, domains_before,
                   assignment, stack, arg, board, game>>

\* move = ai.make_random_move(), lines 288-302
MakeRandomMove ==
    /\ ~Pending
    /\ \E move \in make_random_move(ai) :
            /\ result' = move
            /\ ai' = IF move = NoMove THEN ai ELSE [ai EXCEPT !.moves_made = @ \cup {move}]
    /\ pc' = "random_move_done"
    /\ UNCHANGED <<crossword, domains, queue, ac3_result, ac3_runs, domains_before,
                   assignment, stack, arg, board, game>>

\* ai.add_knowledge(cell, count) with the true count of a cell that holds no
\* mine: the cell of the move just returned, or else a cell not yet played.
\* A move on a mine ends the game.
AddKnowledge ==
    /\ \E cell \in BoardCells(game.height, game.width) \ game.mines :
            /\ IF Pending THEN cell = result ELSE cell \notin ai.moves_made
            /\ arg' = <<cell, nearby_mines(game, cell)>>
            /\ ai' = add_knowledge(ai, cell, nearby_mines(game, cell))
    /\ pc' = "idle"
    /\ result' = "pending"
    /\ UNCHANGED <<crossword, domains, queue, ac3_result, ac3_runs, domains_before,
                   assignment, stack, board, game>>

NextMinesweeper ==
    \/ MakeSafeMove
    \/ MakeRandomMove
    \/ AddKnowledge

SpecMinesweeper == InitMinesweeper /\ [][NextMinesweeper]_vars

-----------------------------------------------------------------------------
(* Properties of make_safe_move and make_random_move *)

\* C14: make_safe_move() does not modify self.mines, self.safes or
\* self.moves_made: the three sets are after the call what they were before.
C14_SafeMoveModifiesNothing ==
    [][pc' = "safe_move_done" =>
            /\ ai'.mines = ai.mines
            /\ ai'.safes = ai.safes
            /\ ai'.moves_made = ai.moves_made]_vars

\* C15: make_safe_move() returns a cell of self.safes that was not in
\* self.moves_made before the call, and returns None exactly when every
\* cell known to be safe was played already.
C15_SafeMoveIsSafeAndNew ==
    [][pc' = "safe_move_done" =>
            IF ai.safes \subseteq ai.moves_made
            THEN result' = NoMove
            ELSE result' \in ai.safes \ ai.moves_made]_vars

\* make_safe_move() returned a cell after other cells had been played.
C15_Witness ==
    /\ pc = "safe_move_done"
    /\ result # NoMove
    /\ ai.moves_made \ {result} # {}

\* C16: make_random_move() returns only a cell of the board that was not in
\* self.moves_made and is not in self.mines, and returns None exactly when
\* the board has no such cell.
C16_RandomMoveAvoidsMinesAndPlayed ==
    [][pc' = "random_move_done" =>
            LET free == {cell \in BoardCells(game.height, game.width) :
                            cell \notin ai.moves_made /\ cell \notin ai.mines}
            IN  IF free = {} THEN result' = NoMove ELSE result' \in free]_vars

\* make_random_move() chose a cell while a mine was known and a cell played.
C16_Witness ==
    /\ pc = "random_move_done"
    /\ result # NoMove
    /\ ai.mines # {}
    /\ ai.moves_made \ {result} # {}

-----------------------------------------------------------------------------
(* Termination and depth of backtrack() *)

\* The longest word list of the runs of backtrack() taken on their own.
MaxSearchWords == 2

\* backtrack(dict()) on the domains that enforce_node_consistency() leaves.
InitBacktrack ==
    /\ crossword \in {[structure |-> s, variables |-> VariablesOf(s), words |-> W] :
                        s \in Structures,
                        W \in {L \in WordLists : Cardinality(L) <= MaxSearchWords}}
    /\ domains = [var \in crossword.variables |-> WordsOfLength(var)]
    /\ pc = "call"
    /\ queue = <<>>
    /\ ac3_result = "none"
    /\ ac3_runs = 0
    /\ domains_before = domains
    /\ assignment = <<>>
    /\ stack = <<>>
    /\ result = "pending"
    /\ arg = None
    /\ board = None
    /\ game = None
    /\ ai = None

NextBacktrack ==
    \/ BacktrackCall
    \/ BacktrackTry
    \/ BacktrackFail

\* The program is sequential: a call of backtrack() keeps taking its next
\* step. BacktrackCall is enabled exactly when pc = "call" and every step of
\* it leaves "call", so its weak fairness is written without ENABLED.
SpecBacktrackFair ==
    InitBacktrack /\ [][NextBacktrack]_vars
        /\ []<>(pc # "call") /\ WF_vars(BacktrackTry) /\ WF_vars(BacktrackFail)

\* The variables of the live frames of backtrack(), outermost first.
FrameVars == [k \in 1..Len(stack) |-> stack[k].var]

\* C25: backtrack({}) always terminates, ending with an assignment or with
\* the explicit None result; the recursion depth never exceeds the number of
\* variables: every live frame holds a different variable, chosen among the
\* variables that were not assigned when the frame was entered, and it is
\* assigned, with everything assigned before, when the frame calls backtrack().
C25_BacktrackTerminates ==
    /\ (pc = "call" /\ stack = <<>>) ~> (pc = "done" /\ result \in {"assignment", "None"})
    /\ [](pc \in {"call", "loop"} =>
            /\ Len(stack) <= Cardinality(crossword.variables)
            /\ AssignmentComplete(assignment) \/ crossword.variables \ Keys(assignment) # {}
            /\ \A i, j \in 1..Len(stack) : i # j => FrameVars[i] # FrameVars[j])
    /\ [][(pc = "call" /\ pc' = "loop") =>
            stack'[Len(stack')].var \in crossword.variables \ Keys(assignment)]_vars
    /\ [][(pc = "loop" /\ pc' = "call") =>
            /\ stack[Len(stack)].var \in Keys(assignment')
            /\ Keys(assignment) \subseteq Keys(assignment')
            /\ Len(assignment') >= Len(stack)]_vars
    /\ [][pc = "loop" => Keys(assignment) \subseteq Keys(assignment')]_vars

\* Every variable has a live frame and the innermost frame has rejected a
\* value and has one more to try.
C25_Witness ==
    /\ pc = "loop"
    /\ Len(stack) = Cardinality(crossword.variables)
    /\ Len(stack) >= 3
    /\ LET top == stack[Len(stack)]
       IN  /\ top.values # <<>>
           /\ Len(top.values) < Cardinality(domains[top.var])

-----------------------------------------------------------------------------
(* Domains during propagation *)

\* C21: domains only shrink during propagation: each revise(x, y) step of
\* ac3 leaves domain(x) a subset of what it was and every other domain as it
\* was, and in every state of ac3 each domain is a subset of its
\* node-consistent initial value.
C21_DomainsOnlyShrink ==
    /\ [](pc \in {"ac3", "ac3_loop", "ac3_done"} =>
            \A v \in crossword.variables : domains[v] \subseteq WordsOfLength(v))
    /\ [][pc = "ac3_loop" /\ queue # <<>> =>
            LET x == Head(queue)[1]
            IN  /\ domains'[x] \subseteq domains[x]
                /\ \A v \in crossword.variables \ {x} : domains'[v] = domains[v]]_vars

\* A step of ac3 is due on domains of which one has lost a word and kept
\* another.
C21_Witness ==
    /\ pc = "ac3_loop"
    /\ queue # <<>>
    /\ \E v \in crossword.variables :
            /\ domains[v] # {}
            /\ domains[v] # WordsOfLength(v)
            /\ domains[v] # domains_before[v]

-----------------------------------------------------------------------------
(* select_unassigned_variable() and order_domain_values() called directly *)

RECURSIVE DictOf(_)
\* A dict with the keys K. Both functions read the assignment through
\* "in assignment.keys()" only: one insertion order is taken and each key
\* holds the same word of its length.
DictOf(K) ==
    IF K = {} THEN <<>>
    ELSE LET key == CHOOSE v \in K : TRUE
         IN  Append(DictOf(K \ {key}),
                    [key |-> key,
                     val |-> Str(CHOOSE w \in Dictionary : Len(w) = key.length)])

\* The dicts whose keys are some, not all, of the variables V.
PartialAssignments(V) == {DictOf(K) : K \in SUBSET V \ {V}}

\* Node-consistent domains of every kind and an assignment that leaves some
\* variable out, as backtrack (lines 318-319) passes them.
InitHeuristics ==
    /\ crossword \in {[structure |-> s, variables |-> VariablesOf(s),
                       words |-> Dictionary] : s \in Structures}
    /\ domains \in [crossword.variables -> SUBSET Dictionary]
    /\ \A v \in crossword.variables : domains[v] \subseteq WordsOfLength(v)
    /\ pc = "heuristics"
    /\ queue = <<>>
    /\ ac3_result = "none"
    /\ ac3_runs = 0
    /\ domains_before = domains
    /\ arg \in PartialAssignments(crossword.variables)
    /\ assignment = arg
    /\ stack = <<>>
    /\ result = "pending"
    /\ board = None
    /\ game = None
    /\ ai = None

\* var = self.select_unassigned_variable(assignment), line 318
SelectCall ==
    /\ pc = "heuristics"
    /\ \E order \in Perms(crossword.variables \ Keys(assignment)) :
            result' = SelectUnassignedVariable(assignment, order)
    /\ pc' = "select_done"
    /\ UNCHANGED <<crossword, domains, queue, ac3_result, ac3_runs, domains_before,
                   assignment, stack, arg, board, game, ai>>

\* values = self.order_domain_values(var, assignment), line 319, for a
\* variable that is not in the assignment.
OrderCall ==
    /\ pc = "heuristics"
    /\ \E var \in crossword.variables \ Keys(assignment) :
       \E values \in Perms(domains[var]) :
            stack' = <<[var |-> var,
                        values |-> OrderDomainValues(var, assignment, values)]>>
    /\ pc' = "order_done"
    /\ UNCHANGED <<crossword, domains, queue, ac3_result, ac3_runs, domains_before,
                   assignment, result, arg, board, game, ai>>

NextHeuristics ==
    \/ SelectCall
    \/ OrderCall

SpecHeuristics == InitHeuristics /\ [][NextHeuristics]_vars

\* The variables that are not keys of a.
Unassigned(a) == crossword.variables \ Keys(a)

\* The unassigned variables whose domain is the smallest.
Tied(a) ==
    {v \in Unassigned(a) :
        \A u \in Unassigned(a) : Cardinality(domains[v]) <= Cardinality(domains[u])}

\* C22: minimum remaining values: select_unassigned_variable returns a
\* variable that is not a key of the assignment and whose domain is the
\* smallest among the unassigned variables.
C22_MinimumRemainingValues ==
    pc = "select_done" => result \in Tied(arg)

\* A variable was selected although another unassigned one has more words.
C22_Witness ==
    /\ pc = "select_done"
    /\ Len(arg) >= 1
    /\ \E u \in Unassigned(arg) : Cardinality(domains[u]) > Cardinality(domains[result])

\* C23: degree tie-break: when several unassigned variables tie for the
\* smallest domain, the one returned has the most overlap-neighbours among
\* the tied ones.
C23_DegreeTieBreak ==
    (pc = "select_done" /\ Cardinality(Tied(arg)) > 1) =>
        /\ result \in Tied(arg)
        /\ \A u \in Tied(arg) :
                Cardinality(Neighbors(result)) >= Cardinality(Neighbors(u))

\* The words that val rules out: the pairs of a neighbour of var that is not
\* in the assignment a and a word of its domain that equals val or disagrees
\* with val at the overlap.
RuledOut(var, a, val) ==
    {p \in (Neighbors(var) \ Keys(a)) \X Dictionary :
        /\ p[2] \in domains[p[1]]
        /\ \/ p[2] = val
           \/ LET overlaps == Overlap(var, p[1])
              IN  val[overlaps[1] + 1] # p[2][overlaps[2] + 1]}

\* C24: least constraining value: order_domain_values(var, assignment)
\* returns every word of domain(var) exactly once, in non-decreasing order
\* of the number of words it rules out in the domains of var's neighbours
\* that are not in the assignment.
C24_LeastConstrainingValue ==
    pc = "order_done" =>
        LET var == stack[1].var
            values == stack[1].values
        IN  /\ Range(values) = domains[var]
            /\ Len(values) = Cardinality(domains[var])
            /\ \A i, j \in 1..Len(values) :
                    i < j => Cardinality(RuledOut(var, arg, values[i]))
                                <= Cardinality(RuledOut(var, arg, values[j]))

\* Three words or more were ordered, the first ruling out fewer words than
\* the last, for a variable one of whose neighbours is in the assignment.
C24_Witness ==
    /\ pc = "order_done"
    /\ Len(stack[1].values) >= 3
    /\ Neighbors(stack[1].var) \cap Keys(arg) # {}
    /\ Cardinality(RuledOut(stack[1].var, arg, stack[1].values[1]))
            < Cardinality(RuledOut(stack[1].var, arg,
                                   stack[1].values[Len(stack[1].values)]))

(***************************************************************************)
(* Legality of the move returned by minimax()                              *)
(***************************************************************************)

\* C26: for every board reachable from initial_state() by legal moves,
\* minimax(board) returns None when the board is terminal and otherwise a
\* member of actions(board), an empty cell, so that
\* result(board, minimax(board)) never raises.
C26_MinimaxLegal ==
    pc = "minimax_done" =>
        IF Terminal(board) THEN result = NoMove
                           ELSE result \in Actions(board)

(***************************************************************************)
(* Soundness of the inference in add_knowledge()                           *)
(***************************************************************************)

\* The longest knowledge base on which one more call is made.
MaxSentences == 3

\* ai.add_knowledge(cell, count) with the true count of any cell that holds
\* no mine, whether or not the cell was played before.
AddKnowledgeAny ==
    /\ pc = "idle"
    /\ Len(ai.knowledge) <= MaxSentences
    /\ \E cell \in BoardCells(game.height, game.width) \ game.mines :
            /\ arg' = <<cell, nearby_mines(game, cell)>>
            /\ ai' = add_knowledge(ai, cell, nearby_mines(game, cell))
    /\ pc' = "idle"
    /\ result' = "pending"
    /\ UNCHANGED <<crossword, domains, queue, ac3_result, ac3_runs, domains_before,
                   assignment, stack, board, game>>

NextAddKnowledge == AddKnowledgeAny

SpecAddKnowledge == InitMinesweeper /\ [][NextAddKnowledge]_vars

\* The number of mines of the real board among the cells of a sentence.
MinesAmong(cells) == Cardinality(cells \cap game.mines)

\* C27: after any sequence of add_knowledge(cell, count) calls in which each
\* cell is a non-mine of the real board and count is its true number of
\* neighbouring mines, every cell of ai.mines is a mine, no cell of ai.safes
\* is a mine (the two sets are disjoint), and every sentence of ai.knowledge
\* is true of the board: its count is the number of mines among its cells.
C27_InferenceSound ==
    pc \in {"idle", "safe_move_done", "random_move_done"} =>
        /\ ai.mines \subseteq game.mines
        /\ ai.safes \cap game.mines = {}
        /\ ai.mines \cap ai.safes = {}
        /\ \A k \in 1..Len(ai.knowledge) :
              ai.knowledge[k].count = MinesAmong(ai.knowledge[k].cells)

\* A mine and a safe cell that was never played have been inferred, a
\* sentence with a mine among its cells is still in the knowledge base, and
\* the knowledge base holds more sentences than cells were played.
C27_Witness ==
    /\ pc = "idle"
    /\ Len(ai.knowledge) > Cardinality(ai.moves_made)
    /\ ai.mines # {}
    /\ ai.safes \ ai.moves_made # {}
    /\ \E k \in 1..Len(ai.knowledge) :
          /\ ai.knowledge[k].count >= 1
          /\ Cardinality(ai.knowledge[k].cells) >= 2

====
